---- MODULE Spec2Model ----
(***************************************************************************)
(* devctx: per-repository project memory (state document, todo list,      *)
(* activity ledger, branch notes, CLAUDE.md section) written by one        *)
(* long-lived MCP server process and by short-lived git hook runs.         *)
(*                                                                         *)
(* Spec      every tool handler of index.ts is one atomic action; hook     *)
(*           runs are atomic too (writers run one at a time).              *)
(* SpecConc  one logActivity call of the server process is split into its  *)
(*           file-system steps and interleaves with hook runs.             *)
(* SpecStore the todo store of state.ts called directly, clock running.    *)
(* SpecSync  the marker-bounded section of CLAUDE.md and of a hook script, *)
(*           as texts, under repeated updateClaudeMd and installHooks.     *)
(* SpecHooks the four hook fragments under any environment and failure.    *)
(* SpecSession goodbye and resume in one process, clock running.           *)
(* SpecRead  the readers of state.ts on any content of the files they read.*)
(* SpecNorm  the similarity deduplicator on short texts.                   *)
(* SpecScan  scanSourceTodos on chains of nested directories.              *)
(*                                                                         *)
(* Time is the millisecond clock read by Date.now() / new Date().          *)
(* toISOString() (both injective in the millisecond value, so a stamp is   *)
(* modelled by that value); the hooks' `date -u +...%S.000Z` keeps whole   *)
(* seconds only.                                                           *)
(***************************************************************************)
EXTENDS Integers, Sequences, FiniteSets, TLC

VARIABLES
    fs,               \* the files of the repository that devctx reads and writes
    sessionStarted,   \* index.ts: let sessionStarted
    pendingGreeting,  \* index.ts: let pendingGreeting (NoGreeting = null)
    now,              \* wall clock, milliseconds
    lastResult,       \* what the last tool invocation of this process returned
    greeted,          \* whether that response carried the greeting
    pc,               \* SpecConc: position of the process inside logActivity
    existing,         \* SpecConc: logActivity's local `existing`
    line,             \* SpecConc: logActivity's local `line`
    hookPc,           \* SpecConc: position of each hook run
    hookLine,         \* SpecConc: the line each hook run is about to append
    completed,        \* SpecConc: the appends that have returned (history)
    hookStatus,       \* exit status of the hook fragment that ran last
    doc,              \* SpecSync: the text of CLAUDE.md
    hookFile,         \* SpecSync: the text of .git/hooks/post-commit
    synced,           \* SpecSync: what was last written into each of the two
    rd,               \* SpecRead: the files by shape, and what the last reader gave
    nz,               \* SpecNorm: a text, a signature list, and the last result
    sc,               \* SpecScan: a directory tree and what the scan gave
    waiting,          \* SpecSession: the devctx_goodbye invocations suspended at await
    bn                \* SpecNotes: the branches directory and what was read from it

vars == <<fs, sessionStarted, pendingGreeting, now, lastResult, greeted,
          pc, existing, line, hookPc, hookLine, completed,
          hookStatus, doc, hookFile, synced, rd, nz, sc, waiting, bn>>

procVars == <<sessionStarted, pendingGreeting, lastResult, greeted>>
concVars == <<pc, existing, line, hookPc, hookLine, completed>>
syncVars == <<doc, hookFile, synced>>
pureVars == <<rd, nz, sc, bn>>

----------------------------------------------------------------------------
(* Bounds of the model *)

MaxLedger == 3
MaxTodos == 2
MaxMillis == 1
MaxSeconds == 1
MaxSessions == 1
MaxAppends == 4
MaxDoc == 3
MaxHookText == 1
MaxGrown == 12
MaxSessionLedger == 4
MaxLines == 2
MaxWords == 2
MaxTreeDepth == 6
MaxWaiting == 2
MaxName == 4
MaxBranchFiles == 2

(* Program constants *)

MsPerSecond == 1000

NoFocus == "nofocus"
NoNotes == "absent"
\* an absent document / the null greeting, as records of the shape of a present one
NoState == [present |-> FALSE, active |-> TRUE, focus |-> NoFocus, lastUpdated |-> 0]
NoClaude == [present |-> FALSE, focus |-> NoFocus, lastUpdated |-> 0, todos |-> <<>>]
NoGreeting == [present |-> FALSE, resumed |-> FALSE, focus |-> NoFocus]

Focuses == {"f1"}
Notes == {"n1"}
LogTypes == {"build"}
Statuses == {"todo", "done"}
Hooks == {"h1", "h2"}

----------------------------------------------------------------------------
(* services/state.ts *)

ensuredevctxDir(f) == [f EXCEPT !.dir = TRUE, !.gitignore = TRUE]

saveProjectState(f, st, t) ==
    [ensuredevctxDir(f) EXCEPT !.state = [st EXCEPT !.lastUpdated = t]]

defaultState(t) == [present |-> TRUE, active |-> TRUE, focus |-> NoFocus, lastUpdated |-> t]

\* returns the state read and the file system it leaves (lazy creation)
getProjectState(f, t) ==
    IF f.state.present
    THEN [val |-> f.state, fs |-> ensuredevctxDir(f)]
    ELSE [val |-> defaultState(t), fs |-> saveProjectState(f, defaultState(t), t)]

isDevctxActive(f, t) == getProjectState(f, t).val.active # FALSE

setDevctxActive(f, active, t) ==
    LET g == getProjectState(f, t)
    IN  saveProjectState(g.fs, [g.val EXCEPT !.active = active], t)

isDevctxInitialized(f) == f.dir /\ f.state.present

updateProjectFocus(f, focus, t) ==
    LET g == getProjectState(f, t)
    IN  saveProjectState(g.fs, [g.val EXCEPT !.focus = focus], t)

Entry(id, ts, type, msg, src) ==
    [id |-> id, ts |-> ts, type |-> type, msg |-> msg, src |-> src]

logContent_LineOnly(content, entry) == <<entry>>

\* writeFileSync(logFile, existing + line)
logContent(content, entry) == content \o <<entry>>

\* read whole file, write whole file plus the new line
logActivity(f, type, msg, t) ==
    LET g == ensuredevctxDir(f)
    IN  [g EXCEPT !.ledger = logContent(g.ledger, Entry(g.nseq, t, type, msg, "proc")),
                  !.nseq = @ + 1]

getTodos(f) == f.todos

\* `todo_${Date.now().toString(36)}`: the millisecond clock in base 36,
\* one id per clock value
generateTodoId(t) == t

\* the stored object has id, text, status, branch, priority, created, updated
\* and tags; it has no source key, so a reader of todo.source gets undefined
\* ("none" here)
addTodo(f, text, t) ==
    LET g == ensuredevctxDir(f)
        todo == [id |-> generateTodoId(t), text |-> text, status |-> "todo",
                 created |-> t, updated |-> t, source |-> "none"]
    IN  [g EXCEPT !.todos = Append(getTodos(g), todo)]

findIndex(todos, id) ==
    IF \E i \in 1..Len(todos) : todos[i].id = id
    THEN CHOOSE i \in 1..Len(todos) :
            /\ todos[i].id = id
            /\ \A j \in 1..(i - 1) : todos[j].id # id
    ELSE 0

updateTodoFound(f, id) == findIndex(getTodos(f), id) # 0

\* mutant: the whole todo is rebuilt, created stamp included
updateTodo_Rebuild(f, id, status, t) ==
    LET g == ensuredevctxDir(f)
        idx == findIndex(getTodos(g), id)
    IN  IF idx = 0 THEN g
        ELSE [g EXCEPT !.todos[idx] = [@ EXCEPT !.status = status, !.created = t,
                                                !.updated = t]]

updateTodo(f, id, status, t) ==
    LET g == ensuredevctxDir(f)
        idx == findIndex(getTodos(g), id)
    IN  IF idx = 0 THEN g
        ELSE [g EXCEPT !.todos[idx] = [@ EXCEPT !.status = status, !.updated = t]]

removeTodoFound(f, id) == \E i \in 1..Len(getTodos(f)) : getTodos(f)[i].id = id

removeTodo(f, id) ==
    LET g == ensuredevctxDir(f)
    IN  [g EXCEPT !.todos = SelectSeq(getTodos(g), LAMBDA x : x.id # id)]

saveBranchNotes(f, content) == [ensuredevctxDir(f) EXCEPT !.notes = content]

\* the rendered devctx section: focus, last-updated stamp, todos not done
updateClaudeMd(f, st, todos) ==
    [f EXCEPT !.claude = [present |-> TRUE, focus |-> st.focus, lastUpdated |-> st.lastUpdated,
                          todos |-> SelectSeq(todos, LAMBDA x : x.status # "done")]]

----------------------------------------------------------------------------
(* index.ts: guards and session start *)

guardActive_Never(f, t) == FALSE

guardActive(f, t) == ~isDevctxActive(f, t)

guardActiveFs(f, t) == getProjectState(f, t).fs

guardInitialized(f) == ~isDevctxInitialized(f)

\* mutant: the sessionStarted flag is not consulted
autoSessionStart_NoFlag(f, started, greeting, t) ==
    IF ~isDevctxInitialized(f)
    THEN [fs |-> f, started |-> started, greeting |-> greeting]
    ELSE LET wasResumed == ~isDevctxActive(f, t)
             f1 == IF wasResumed THEN setDevctxActive(f, TRUE, t)
                   ELSE getProjectState(f, t).fs
             f2 == logActivity(f1, "session_start", "Session started", t)
         IN  [fs |-> f2, started |-> TRUE,
              greeting |-> [present |-> TRUE, resumed |-> wasResumed,
                            focus |-> f2.state.focus]]

\* mutant: a paused project is not resumed
autoSessionStart_NoResume(f, started, greeting, t) ==
    IF started \/ ~isDevctxInitialized(f)
    THEN [fs |-> f, started |-> started, greeting |-> greeting]
    ELSE LET wasResumed == ~isDevctxActive(f, t)
             f1 == getProjectState(f, t).fs
             f2 == logActivity(f1, "session_start", "Session started", t)
         IN  [fs |-> f2, started |-> TRUE,
              greeting |-> [present |-> TRUE, resumed |-> wasResumed,
                            focus |-> f2.state.focus]]

\* mutant: a paused project is resumed on every invocation
autoSessionStart_ResumeAlways(f, started, greeting, t) ==
    IF ~isDevctxInitialized(f)
    THEN [fs |-> f, started |-> started, greeting |-> greeting]
    ELSE IF started
    THEN [fs |-> IF isDevctxActive(f, t) THEN f ELSE setDevctxActive(f, TRUE, t),
          started |-> started, greeting |-> greeting]
    ELSE LET wasResumed == ~isDevctxActive(f, t)
             f1 == IF wasResumed THEN setDevctxActive(f, TRUE, t)
                   ELSE getProjectState(f, t).fs
             f2 == logActivity(f1, "session_start", "Session started", t)
         IN  [fs |-> f2, started |-> TRUE,
              greeting |-> [present |-> TRUE, resumed |-> wasResumed,
                            focus |-> f2.state.focus]]

\* outcome of autoSessionStart: file system, flag, stashed greeting
autoSessionStart(f, started, greeting, t) ==
    IF started \/ ~isDevctxInitialized(f)
    THEN [fs |-> f, started |-> started, greeting |-> greeting]
    ELSE LET wasResumed == ~isDevctxActive(f, t)
             f1 == IF wasResumed THEN setDevctxActive(f, TRUE, t)
                   ELSE getProjectState(f, t).fs
             f2 == logActivity(f1, "session_start", "Session started", t)
         IN  [fs |-> f2, started |-> TRUE,
              greeting |-> [present |-> TRUE, resumed |-> wasResumed,
                            focus |-> f2.state.focus]]


\* a tool response: file system left behind, process flags, result, greeting shown
Out(f, s, result) ==
    [fs |-> f, started |-> s.started, greeting |-> s.greeting,
     result |-> result, greeted |-> FALSE]

withGreeting(o) ==
    IF ~o.greeting.present THEN o
    ELSE [o EXCEPT !.greeting = NoGreeting, !.greeted = TRUE]

----------------------------------------------------------------------------
(* index.ts: the tool handlers, each from the process state and its inputs *)

devctx_whereami(f, started, greeting, t) ==
    LET s == autoSessionStart(f, started, greeting, t)
    IN  withGreeting(Out(getProjectState(s.fs, t).fs, s, "ok"))

devctx_update_focus(f, started, greeting, t, focus, sync) ==
    LET s  == autoSessionStart(f, started, greeting, t)
        f1 == guardActiveFs(s.fs, t)
        f2 == updateProjectFocus(f1, focus, t)
        f3 == logActivity(f2, "note", "", t)
        f4 == IF sync THEN updateClaudeMd(f3, f2.state, getTodos(f3)) ELSE f3
    IN  IF guardActive(s.fs, t) THEN Out(f1, s, "paused")
        ELSE IF guardInitialized(f1) THEN Out(f1, s, "not_initialized")
        ELSE Out(f4, s, "ok")

devctx_log(f, started, greeting, t, type) ==
    LET s  == autoSessionStart(f, started, greeting, t)
        f1 == guardActiveFs(s.fs, t)
    IN  IF guardActive(s.fs, t) THEN Out(f1, s, "paused")
        ELSE Out(logActivity(f1, type, "", t), s, "ok")

devctx_activity(f, started, greeting, t) ==
    LET s == autoSessionStart(f, started, greeting, t)
    IN  withGreeting(Out(ensuredevctxDir(s.fs), s, "ok"))

devctx_todo_add(f, started, greeting, t, text, sync) ==
    LET s  == autoSessionStart(f, started, greeting, t)
        f1 == guardActiveFs(s.fs, t)
        f2 == addTodo(f1, text, t)
        f3 == logActivity(f2, "note", "", t)
        g  == getProjectState(f3, t)
        f4 == IF sync THEN updateClaudeMd(g.fs, g.val, getTodos(g.fs)) ELSE f3
    IN  IF guardActive(s.fs, t) THEN Out(f1, s, "paused")
        ELSE Out(f4, s, "ok")

devctx_todo_update(f, started, greeting, t, id, status, sync) ==
    LET s  == autoSessionStart(f, started, greeting, t)
        f1 == guardActiveFs(s.fs, t)
        f2 == updateTodo(f1, id, status, t)
        g  == getProjectState(f2, t)
        f3 == IF sync THEN updateClaudeMd(g.fs, g.val, getTodos(g.fs)) ELSE f2
    IN  IF guardActive(s.fs, t) THEN Out(f1, s, "paused")
        ELSE IF ~updateTodoFound(f1, id) THEN Out(f2, s, "not_found")
        ELSE Out(f3, s, "ok")

devctx_todo_list(f, started, greeting, t) ==
    LET s == autoSessionStart(f, started, greeting, t)
    IN  withGreeting(Out(ensuredevctxDir(s.fs), s, "ok"))

devctx_todo_remove(f, started, greeting, t, id) ==
    LET s  == autoSessionStart(f, started, greeting, t)
        f1 == guardActiveFs(s.fs, t)
    IN  IF guardActive(s.fs, t) THEN Out(f1, s, "paused")
        ELSE IF ~removeTodoFound(f1, id) THEN Out(ensuredevctxDir(f1), s, "not_found")
        ELSE Out(removeTodo(f1, id), s, "ok")

devctx_branch_notes(f, started, greeting, t) ==
    LET s == autoSessionStart(f, started, greeting, t)
    IN  Out(ensuredevctxDir(s.fs), s, "ok")

devctx_branch_notes_save(f, started, greeting, t, content) ==
    LET s  == autoSessionStart(f, started, greeting, t)
        f1 == guardActiveFs(s.fs, t)
        f2 == saveBranchNotes(f1, content)
    IN  IF guardActive(s.fs, t) THEN Out(f1, s, "paused")
        ELSE Out(logActivity(f2, "note", "", t), s, "ok")

devctx_sync(f, started, greeting, t) ==
    LET s  == autoSessionStart(f, started, greeting, t)
        f1 == guardActiveFs(s.fs, t)
        g  == getProjectState(f1, t)
    IN  IF guardActive(s.fs, t) THEN Out(f1, s, "paused")
        ELSE Out(updateClaudeMd(g.fs, g.val, getTodos(g.fs)), s, "ok")

installHooks(f) == [f EXCEPT !.hooks = TRUE]

\* mutant: the early return of an initialized repository is missing
devctx_init_NoEarlyReturn(f, started, greeting, t, focus, force) ==
    LET s  == [started |-> started, greeting |-> greeting]
        g  == getProjectState(f, t)
        st == [g.val EXCEPT !.focus = IF focus # NoFocus THEN focus ELSE @,
                            !.active = TRUE]
        f1 == saveProjectState(g.fs, st, t)
        f2 == logActivity(f1, "milestone", "", t)
        f3 == installHooks(f2)
    IN  Out(updateClaudeMd(f3, f1.state, getTodos(f3)), s, "ok")

\* the repository is a git repository: scan.environment is git_no_devctx or
\* git_with_devctx, by whether .devctx/state.json exists
devctx_init(f, started, greeting, t, focus, force) ==
    LET s  == [started |-> started, greeting |-> greeting]
        g  == getProjectState(f, t)
        st == [g.val EXCEPT !.focus = IF focus # NoFocus THEN focus ELSE @,
                            !.active = TRUE]
        f1 == saveProjectState(g.fs, st, t)
        f2 == logActivity(f1, "milestone", "", t)
        f3 == installHooks(f2)
        f4 == updateClaudeMd(f3, f1.state, getTodos(f3))
    IN  IF f.state.present /\ ~force
        THEN Out(getProjectState(f, t).fs, s, "already_initialized")
        ELSE Out(f4, s, "ok")

devctx_stop(f, started, greeting, t) ==
    LET s == autoSessionStart(f, started, greeting, t)
    IN  IF guardInitialized(s.fs) THEN Out(s.fs, s, "not_initialized")
        ELSE Out(setDevctxActive(s.fs, FALSE, t), s, "ok")

devctx_start(f, started, greeting, t) ==
    LET s  == autoSessionStart(f, started, greeting, t)
        f1 == setDevctxActive(s.fs, TRUE, t)
    IN  IF guardInitialized(s.fs) THEN Out(s.fs, s, "not_initialized")
        ELSE Out(logActivity(f1, "session_start", "devctx tracking resumed", t), s, "ok")

devctx_status(f, started, greeting, t) ==
    LET s == autoSessionStart(f, started, greeting, t)
    IN  IF ~isDevctxInitialized(s.fs) THEN Out(s.fs, s, "not_initialized")
        ELSE withGreeting(Out(getProjectState(s.fs, t).fs, s, "ok"))

devctx_summary(f, started, greeting, t) ==
    LET s == autoSessionStart(f, started, greeting, t)
    IN  IF guardInitialized(s.fs) THEN Out(s.fs, s, "not_initialized")
        ELSE withGreeting(Out(getProjectState(s.fs, t).fs, s, "ok"))

devctx_git_summary(f, started, greeting, t) ==
    LET s == autoSessionStart(f, started, greeting, t)
    IN  withGreeting(Out(s.fs, s, "ok"))

RECURSIVE addSuggested(_, _, _)
addSuggested(f, suggested, t) ==
    IF suggested = <<>> THEN f
    ELSE addSuggested(addTodo(f, Head(suggested), t), Tail(suggested), t)

\* narrative.ts: how the call of the narrative collaborator ends
NarrativeOutcomes == {"text", "nokey", "error", "notext"}

generateGoodbyeSummary_Rethrow(outcome, suggested) ==
    IF outcome = "text"
    THEN [threw |-> FALSE, narrative |-> "generated", todos |-> suggested]
    ELSE IF outcome = "error"
    THEN [threw |-> TRUE, narrative |-> "none", todos |-> <<>>]
    ELSE [threw |-> FALSE, narrative |-> "fallback", todos |-> suggested]

\* no key, a rejected call and a response without a text block all end in
\* generateFallbackGoodbye; nothing is thrown to the caller.  `suggested` is
\* the todo list that the response, or the fallback, comes with
generateGoodbyeSummary(outcome, suggested) ==
    IF outcome = "text"
    THEN [threw |-> FALSE, narrative |-> "generated", todos |-> suggested]
    ELSE [threw |-> FALSE, narrative |-> "fallback", todos |-> suggested]

\* now.toISOString() with ":" replaced and the milliseconds cut off: the
\* name of the session file is the clock in whole seconds
sessionFileName(t) == t \div MsPerSecond

\* writeFileSync(sessionFile, sessionRecord): a file of that name is replaced.
\* `since` is the stamp the reported duration is counted from (-1: none)
writeSessionRecord(f, t, narrative, suggested, since) ==
    [f EXCEPT !.sessions = {r \in @ : r.name # sessionFileName(t)} \cup
                  {[name |-> sessionFileName(t), narrative |-> narrative,
                    todos |-> suggested, since |-> since]}]

\* the newest session_start entry among the 30 newest ledger entries
\* (getRecentActivity(repoRoot, 30), newest first; sessionStarts[0]), or -1
sessionStartTime(f) ==
    LET n == Len(f.ledger)
        recent == [i \in 1..(IF n < 30 THEN n ELSE 30) |-> f.ledger[n - i + 1]]
        sessionStarts == SelectSeq(recent, LAMBDA a : a.type = "session_start")
    IN  IF sessionStarts = <<>> THEN -1 ELSE sessionStarts[1].ts

\* the handler from the point where the awaited generateGoodbyeSummary
\* settles: session record, suggested todos, session_end, pause, re-render.
\* `fail` names the write that throws ("record": the session file, "pause":
\* state.json, "sync": CLAUDE.md; "none": no write throws).  The catch block
\* logs session_end and pauses, inside a try of its own
devctx_goodbye_afterAwait(f, s, t, since, outcome, suggested, fail) ==
    LET n  == generateGoodbyeSummary(outcome, suggested)
        f2 == writeSessionRecord(f, t, n.narrative, n.todos, since)
        f3 == addSuggested(f2, n.todos, t)
        f4 == logActivity(f3, "session_end", "", t)
        f5 == setDevctxActive(f4, FALSE, t)
        g  == getProjectState(f5, t)
        reached == IF n.threw \/ fail = "record" THEN f
                   ELSE IF fail = "pause" THEN f4
                   ELSE g.fs
        e1 == logActivity(reached, "session_end", "", t)
        e2 == IF fail = "pause" THEN e1 ELSE setDevctxActive(e1, FALSE, t)
    IN  IF n.threw \/ fail # "none" THEN Out(e2, s, "completed_with_errors")
        ELSE Out(updateClaudeMd(g.fs, g.val, getTodos(g.fs)), s, "ok")

\* the handler: session start, guards, the context read before the await,
\* then the rest
devctx_goodbye(f, started, greeting, t, outcome, suggested, fail) ==
    LET s  == autoSessionStart(f, started, greeting, t)
        f1 == guardActiveFs(s.fs, t)
        c  == getProjectState(f1, t).fs
    IN  IF guardActive(s.fs, t) THEN Out(f1, s, "paused")
        ELSE IF guardInitialized(f1) THEN Out(f1, s, "not_initialized")
        ELSE devctx_goodbye_afterAwait(c, s, t, sessionStartTime(c), outcome, suggested, fail)

devctx_help(f, started, greeting, t) ==
    Out(f, [started |-> started, greeting |-> greeting], "ok")

----------------------------------------------------------------------------
(* hooks.ts: the shell fragment of a hook *)

\* date -u +%Y-%m-%dT%H:%M:%S.000Z : the clock cut to whole seconds
hookTimestamp(t) == (t \div MsPerSecond) * MsPerSecond

HookKinds == {"post-commit", "post-checkout", "post-merge", "pre-push"}

\* the "type" each fragment prints
hookType(kind) ==
    CASE kind = "post-commit" -> "commit"
      [] kind = "post-checkout" -> "branch_switch"
      [] kind = "post-merge" -> "merge"
      [] kind = "pre-push" -> "push"

\* the printf line of a fragment: "metadata":{...,"source":"hook"}
fragmentEntry(id, t, kind) == Entry(id, hookTimestamp(t), hookType(kind), "", "hook")

hookEntry(id, t) == fragmentEntry(id, t, "post-commit")

\* what can go wrong inside a fragment: git rev-parse --show-toplevel fails,
\* a later git query fails, the ledger cannot be opened for appending
HookFailures == {"none", "root", "query", "write"}

subshell_NoDirTest(f, t, kind, branchCheckout, skip, fail) ==
    IF kind = "post-checkout" /\ ~branchCheckout THEN [fs |-> f, status |-> 0]
    ELSE IF fail = "root" THEN [fs |-> f, status |-> 0]
    ELSE IF fail = "write" THEN [fs |-> f, status |-> 1]
    ELSE [fs |-> [f EXCEPT !.ledger = Append(@, fragmentEntry(f.nseq, t, kind)),
                           !.nseq = @ + 1],
          status |-> 0]

\* the subshell ( set +e ... ): the files it leaves and its exit status.
\* branchCheckout is "$3" = "1" of post-checkout; skip is DEVCTX_SKIP_HOOKS
\* in the environment, which no fragment reads.
subshell(f, t, kind, branchCheckout, skip, fail) ==
    IF kind = "post-checkout" /\ ~branchCheckout THEN [fs |-> f, status |-> 0]
    ELSE IF fail = "root" THEN [fs |-> f, status |-> 0]
    ELSE IF ~f.dir THEN [fs |-> f, status |-> 0]
    ELSE IF fail = "write" THEN [fs |-> f, status |-> 1]
    ELSE [fs |-> [f EXCEPT !.ledger = Append(@, fragmentEntry(f.nseq, t, kind)),
                           !.nseq = @ + 1],
          status |-> 0]

orTrue_Drop(status) == status

\* ( ... ) || true
orTrue(status) == 0

runFragment(f, t, kind, branchCheckout, skip, fail) ==
    LET sub == subshell(f, t, kind, branchCheckout, skip, fail)
    IN  [fs |-> sub.fs, sub |-> sub.status, exit |-> orTrue(sub.status)]

\* a post-commit hook run in which nothing fails
runHook(f, t) == runFragment(f, t, "post-commit", TRUE, FALSE, "none").fs

----------------------------------------------------------------------------
(* The marker-bounded section of a text file, written at two places:        *)
(* updateClaudeMd (state.ts) for CLAUDE.md and installHooks (hooks.ts) for  *)
(* a hook script.  A text is a sequence of tokens: the two markers, a       *)
(* newline, a space, and other text.                                        *)

StartMarker == "START"
EndMarker == "END"
Newline == "nl"
Space == "sp"
Shebang == "#!/bin/sh"

\* String.prototype.trimEnd removes trailing white space
Whitespace == {Newline, Space}

includes(content, marker) == \E i \in 1..Len(content) : content[i] = marker

\* position of the first occurrence (from 1), 0 when there is none
indexOf(content, marker) ==
    IF includes(content, marker)
    THEN CHOOSE i \in 1..Len(content) :
            /\ content[i] = marker
            /\ \A j \in 1..(i - 1) : content[j] # marker
    ELSE 0

\* content.substring(0, content.indexOf(startMarker))
before(content) == SubSeq(content, 1, indexOf(content, StartMarker) - 1)

\* content.substring(content.indexOf(endMarker) + endMarker.length)
after(content) == SubSeq(content, indexOf(content, EndMarker) + 1, Len(content))

RECURSIVE trimEnd(_)
trimEnd(content) ==
    IF content = <<>> THEN content
    ELSE IF content[Len(content)] \in Whitespace
    THEN trimEnd(SubSeq(content, 1, Len(content) - 1))
    ELSE content

\* the rendered section: start marker, the rendered lines, end marker
builddevctxSection(rendered) == <<StartMarker, rendered, EndMarker>>

\* lines 380-382 / hooks.ts 133-135
replaceSection(content, section) == before(content) \o section \o after(content)

appendSection_Overwrite(content, separator, section) == section \o <<Newline>>

\* line 384 / hooks.ts 138
appendSection(content, separator, section) ==
    trimEnd(content) \o separator \o section \o <<Newline>>

\* updateClaudeMd on the text of CLAUDE.md (an absent file reads as "")
updateClaudeMdContent(content, devctxSection) ==
    IF includes(content, StartMarker) /\ includes(content, EndMarker)
    THEN replaceSection(content, devctxSection)
    ELSE appendSection(content, <<Newline, Newline>>, devctxSection)

NoFile == [present |-> FALSE, text |-> <<>>]

\* the template literal opens with a line break before the start marker
generatePostCommitHook == <<Newline, StartMarker, "script", EndMarker>>

\* the body of the loop of installHooks, for one hook file
installHookFile(file, hookContent) ==
    [present |-> TRUE,
     text |-> IF file.present
              THEN IF includes(file.text, StartMarker) /\ includes(file.text, EndMarker)
                   THEN replaceSection(file.text, hookContent)
                   ELSE appendSection(file.text, <<Newline>>, hookContent)
              ELSE <<Shebang, Newline>> \o hookContent \o <<Newline>>]

NoSync == [claude |-> "none", hooks |-> FALSE]

----------------------------------------------------------------------------
(* services/state.ts: the readers, on files taken by what JSON.parse makes  *)
(* of their content                                                         *)

\* a file is absent, is not JSON, or parses to null, a number, an object or
\* a list; a ledger line is one of the middle four ("object": an entry)
Shapes == {"absent", "unparseable", "null", "number", "object", "list"}

NoRead == [state |-> "absent", todos |-> "absent", ledger |-> <<>>,
           reader |-> "none", threw |-> FALSE, value |-> "none"]

\* JSON.parse inside try; whatever parses is returned as the state; the
\* default is built only for an absent or unparseable file
getProjectStateRaw(shape) ==
    IF shape \in {"absent", "unparseable"}
    THEN [threw |-> FALSE, value |-> "default"]
    ELSE [threw |-> FALSE, value |-> shape]

\* state.active !== false, outside any try: a property read of null throws
isDevctxActiveRaw(shape) ==
    IF getProjectStateRaw(shape).value = "null"
    THEN [threw |-> TRUE, value |-> "none"]
    ELSE [threw |-> FALSE, value |-> "boolean"]

\* parse and the two filters are inside try; without a filter the parsed
\* value is returned as it is
getTodosRaw(shape, filtered) ==
    IF shape \in {"absent", "unparseable"} THEN [threw |-> FALSE, value |-> "empty"]
    ELSE IF shape = "list" THEN [threw |-> FALSE, value |-> "list"]
    ELSE IF filtered THEN [threw |-> FALSE, value |-> "empty"]
    ELSE [threw |-> FALSE, value |-> shape]

\* each line parsed in its own try, null for a bad line, then
\* filter(Boolean): a line that parses to a (non-zero) number stays
getRecentActivityRaw(lines) ==
    LET kept == SelectSeq(lines, LAMBDA l : l \in {"object", "number"})
    IN  [threw |-> FALSE,
         value |-> IF kept = <<>> THEN "empty"
                   ELSE IF \A i \in 1..Len(kept) : kept[i] = "object" THEN "list"
                   ELSE "mixed"]

\* parse and entry.type are inside the try of the loop body
getLastActivityByTypeRaw(lines) ==
    [threw |-> FALSE,
     value |-> IF \E i \in 1..Len(lines) : lines[i] = "object" THEN "entry" ELSE "empty"]

----------------------------------------------------------------------------
(* shared/data.ts: the similarity deduplicator.  A word is a root followed  *)
(* by suffixes, possibly capitalized; a text is a sequence of words and     *)
(* punctuation; a signature is the sequence of its tokens.                  *)

Words ==
    {[root |-> "add", sfx |-> <<>>, cap |-> FALSE],
     [root |-> "add", sfx |-> <<"ed">>, cap |-> TRUE],
     [root |-> "the", sfx |-> <<>>, cap |-> FALSE],
     [root |-> "track", sfx |-> <<>>, cap |-> FALSE],
     [root |-> "track", sfx |-> <<"ed">>, cap |-> FALSE],
     [root |-> "docu", sfx |-> <<"ment", "ation">>, cap |-> FALSE],
     [root |-> "/", sfx |-> <<>>, cap |-> FALSE]}

StopWords ==
    {[root |-> "add", sfx |-> <<>>, cap |-> FALSE],
     [root |-> "the", sfx |-> <<>>, cap |-> FALSE]}

\* alphabetical order of the roots
Rank == [add |-> 1, docu |-> 2, the |-> 3, track |-> 4]

\* the suffix replacements chained, each applied once to the result of the
\* one before ("documentation" -> "document" -> "docu")
pseudoStem(w) ==
    LET strip(x, s) == IF x.sfx # <<>> /\ x.sfx[Len(x.sfx)] = s
                       THEN [x EXCEPT !.sfx = SubSeq(@, 1, Len(@) - 1)]
                       ELSE x
    IN  strip(strip(strip(strip(w, "ing"), "ed"), "ation"), "ment")

\* lowercase; split on non-alphanumerics; drop stop words; stem; dedupe and
\* sort
normalize(text) ==
    LET lower == [i \in 1..Len(text) |-> [text[i] EXCEPT !.cap = FALSE]]
        words == SelectSeq(lower, LAMBDA w : w.root # "/")
        kept  == SelectSeq(words, LAMBDA w : w \notin StopWords)
        stems == {pseudoStem(kept[i]) : i \in 1..Len(kept)}
        precedes(a, b) == \/ Rank[a.root] < Rank[b.root]
                          \/ Rank[a.root] = Rank[b.root] /\ Len(a.sfx) < Len(b.sfx)
    IN  [i \in 1..Cardinality(stems) |->
            CHOOSE x \in stems : Cardinality({y \in stems : precedes(y, x)}) = i - 1]

\* mutant: the overlap has to exceed the threshold strictly
isSimilarToAny_Strict(text, signatures) ==
    LET a == {normalize(text)[i] : i \in 1..Len(normalize(text))}
    IN  \E k \in 1..Len(signatures) :
            LET b == {signatures[k][i] : i \in 1..Len(signatures[k])}
            IN  5 * Cardinality(a \cap b) > 2 * Cardinality(a \cup b)

\* the candidate is normalized; it is similar to a signature when the tokens
\* they share are at least 2/5 of the tokens of both
isSimilarToAny(text, signatures) ==
    LET a == {normalize(text)[i] : i \in 1..Len(normalize(text))}
    IN  \E k \in 1..Len(signatures) :
            LET b == {signatures[k][i] : i \in 1..Len(signatures[k])}
            IN  5 * Cardinality(a \cap b) >= 2 * Cardinality(a \cup b)

NoText == [text |-> <<>>, sigs |-> <<>>, op |-> "none", out |-> <<>>, prev |-> <<>>,
           similar |-> FALSE]

----------------------------------------------------------------------------
(* services/scanner.ts: the source TODO scanner.  A tree is a chain of      *)
(* nested directories, tree[d + 1] the directory at depth d: the kind of    *)
(* its name ("plain", "skipped": in SKIP_DIRS, "dot"), whether readdirSync  *)
(* succeeds on it, how many source files it holds, whether they can be      *)
(* read, and the line of each that carries a TODO (its last line).          *)

MAX_DEPTH == 5
MAX_FILES == 500
MAX_LINES_PER_FILE == 10000

NoScan == [tree |-> <<>>, dirFirst |-> FALSE, done |-> FALSE, total |-> 0, records |-> {}]

\* mutant: the depth test is missing
RECURSIVE collectFiles_NoDepthTest(_, _, _, _)
collectFiles_NoDepthTest(tree, dirFirst, depth, files) ==
    LET here == tree[depth + 1]
        push(fl) ==
            LET c == IF here.files < MAX_FILES - fl.length THEN here.files
                     ELSE MAX_FILES - fl.length
            IN  [groups |-> Append(fl.groups, [dir |-> depth, count |-> c]),
                 length |-> fl.length + c]
        descend(fl) ==
            IF /\ depth + 2 <= Len(tree)
               /\ fl.length < MAX_FILES
               /\ tree[depth + 2].kind = "plain"
            THEN collectFiles_NoDepthTest(tree, dirFirst, depth + 1, fl)
            ELSE fl
    IN  IF files.length >= MAX_FILES \/ ~here.readable THEN files
        ELSE IF dirFirst THEN push(descend(files))
        ELSE descend(push(files))

\* files: the paths collected so far, grouped by directory, and their number.
\* The loop over the entries pushes the files of the directory while fewer
\* than MAX_FILES are collected and recurses into the subdirectory, unless
\* its name starts with "." or is in SKIP_DIRS; readdirSync failing ends the
\* call without an error
RECURSIVE collectFiles(_, _, _, _)
collectFiles(tree, dirFirst, depth, files) ==
    LET here == tree[depth + 1]
        push(fl) ==
            LET c == IF here.files < MAX_FILES - fl.length THEN here.files
                     ELSE MAX_FILES - fl.length
            IN  [groups |-> Append(fl.groups, [dir |-> depth, count |-> c]),
                 length |-> fl.length + c]
        descend(fl) ==
            IF /\ depth + 2 <= Len(tree)
               /\ fl.length < MAX_FILES
               /\ tree[depth + 2].kind = "plain"
            THEN collectFiles(tree, dirFirst, depth + 1, fl)
            ELSE fl
    IN  IF depth > MAX_DEPTH \/ files.length >= MAX_FILES \/ ~here.readable THEN files
        ELSE IF dirFirst THEN push(descend(files))
        ELSE descend(push(files))

\* every collected file is read inside try; lines 1..min(lines.length,
\* MAX_LINES_PER_FILE) are matched and a match at index i is reported as
\* line i + 1
scanSourceTodos(tree, dirFirst) ==
    LET fl == collectFiles(tree, dirFirst, 0, [groups |-> <<>>, length |-> 0])
        read == {i \in 1..Len(fl.groups) :
                    /\ fl.groups[i].count > 0
                    /\ tree[fl.groups[i].dir + 1].fileReadable
                    /\ tree[fl.groups[i].dir + 1].todoLine <= MAX_LINES_PER_FILE}
    IN  [total |-> fl.length,
         records |-> {[dir |-> fl.groups[i].dir,
                       line |-> tree[fl.groups[i].dir + 1].todoLine] : i \in read}]

----------------------------------------------------------------------------
(* Spec: one process, handlers and hook runs one at a time.  No handler      *)
(* branches on the clock, so the clock stands still here; SpecConc and      *)
(* SpecStore let it run.                                                    *)

InitFs ==
    [dir |-> FALSE, gitignore |-> FALSE, hooks |-> FALSE, state |-> NoState,
     ledger |-> <<>>, todos |-> <<>>, notes |-> NoNotes, claude |-> NoClaude,
     sessions |-> {}, nseq |-> 0]

Init ==
    /\ fs = InitFs
    /\ sessionStarted = FALSE
    /\ pendingGreeting = NoGreeting
    /\ now = 0
    /\ lastResult = "none"
    /\ greeted = FALSE
    /\ pc = "idle"
    /\ existing = <<>>
    /\ line = Entry(0, 0, "none", "none", "proc")
    /\ hookPc = [h \in Hooks |-> "idle"]
    /\ hookLine = [h \in Hooks |-> hookEntry(0, 0)]
    /\ completed = {}
    /\ hookStatus = [sub |-> 0, exit |-> 0]
    /\ doc = <<>>
    /\ hookFile = NoFile
    /\ synced = NoSync
    /\ rd = NoRead
    /\ nz = NoText
    /\ sc = NoScan
    /\ waiting = <<>>
    /\ bn = [files |-> {}, listed |-> {}, got |-> ""]

Within(f, maxLedger) ==
    /\ Len(f.ledger) <= maxLedger
    /\ Len(f.todos) <= MaxTodos
    /\ Cardinality(f.sessions) <= MaxSessions

WithinBounds(f) == Within(f, MaxLedger)

\* a handler runs to its return, within the given ledger bound
InvokeWithin(o, maxLedger) ==
    /\ Within(o.fs, maxLedger)
    /\ fs' = o.fs
    /\ sessionStarted' = o.started
    /\ pendingGreeting' = o.greeting
    /\ lastResult' = o.result
    /\ greeted' = o.greeted
    /\ UNCHANGED <<waiting, pureVars, syncVars, hookStatus, now, concVars>>

Invoke(o) == InvokeWithin(o, MaxLedger)

TodoIds == {fs.todos[i].id : i \in 1..Len(fs.todos)} \cup {-1}

Whereami ==
    Invoke(devctx_whereami(fs, sessionStarted, pendingGreeting, now))

UpdateFocus ==
    \E focus \in Focuses, sync \in BOOLEAN :
        Invoke(devctx_update_focus(fs, sessionStarted, pendingGreeting, now, focus, sync))

Log ==
    \E type \in LogTypes :
        Invoke(devctx_log(fs, sessionStarted, pendingGreeting, now, type))

Activity ==
    Invoke(devctx_activity(fs, sessionStarted, pendingGreeting, now))

TodoAdd ==
    \E sync \in BOOLEAN :
        Invoke(devctx_todo_add(fs, sessionStarted, pendingGreeting, now, "task", sync))

TodoUpdate ==
    \E id \in TodoIds, status \in Statuses, sync \in BOOLEAN :
        Invoke(devctx_todo_update(fs, sessionStarted, pendingGreeting, now, id, status, sync))

TodoList ==
    Invoke(devctx_todo_list(fs, sessionStarted, pendingGreeting, now))

TodoRemove ==
    \E id \in TodoIds :
        Invoke(devctx_todo_remove(fs, sessionStarted, pendingGreeting, now, id))

BranchNotes ==
    Invoke(devctx_branch_notes(fs, sessionStarted, pendingGreeting, now))

BranchNotesSave ==
    \E content \in Notes :
        Invoke(devctx_branch_notes_save(fs, sessionStarted, pendingGreeting, now, content))

Sync ==
    Invoke(devctx_sync(fs, sessionStarted, pendingGreeting, now))

InitTool ==
    \E focus \in Focuses \cup {NoFocus}, force \in BOOLEAN :
        Invoke(devctx_init(fs, sessionStarted, pendingGreeting, now, focus, force))

Stop ==
    Invoke(devctx_stop(fs, sessionStarted, pendingGreeting, now))

Start ==
    Invoke(devctx_start(fs, sessionStarted, pendingGreeting, now))

Status ==
    Invoke(devctx_status(fs, sessionStarted, pendingGreeting, now))

Summary ==
    Invoke(devctx_summary(fs, sessionStarted, pendingGreeting, now))

GitSummary ==
    Invoke(devctx_git_summary(fs, sessionStarted, pendingGreeting, now))

\* the todos the collaborator, or the fallback, suggests: none, or one with
\* the text that devctx_todo_add is called with
Suggestions == {<<>>, <<"task">>}

GoodbyeWith(outcome, suggested) ==
    Invoke(devctx_goodbye(fs, sessionStarted, pendingGreeting, now, outcome, suggested,
                          "none"))

Goodbye ==
    \E outcome \in NarrativeOutcomes, suggested \in Suggestions :
        GoodbyeWith(outcome, suggested)

Help ==
    Invoke(devctx_help(fs, sessionStarted, pendingGreeting, now))

\* the server process exits and a new one starts (a new conversation)
Restart ==
    /\ sessionStarted' = FALSE
    /\ pendingGreeting' = NoGreeting
    /\ lastResult' = "none"
    /\ greeted' = FALSE
    /\ UNCHANGED <<waiting, pureVars, syncVars, hookStatus, fs, now, concVars>>

\* a git operation in some terminal runs an installed hook
HookRun ==
    /\ fs.hooks
    /\ WithinBounds(runHook(fs, now))
    /\ fs' = runHook(fs, now)
    /\ UNCHANGED <<waiting, pureVars, syncVars, hookStatus, procVars, now, concVars>>

Next ==
    \/ Whereami
    \/ UpdateFocus
    \/ Log
    \/ Activity
    \/ TodoAdd
    \/ TodoUpdate
    \/ TodoList
    \/ TodoRemove
    \/ BranchNotes
    \/ BranchNotesSave
    \/ Sync
    \/ InitTool
    \/ Stop
    \/ Start
    \/ Status
    \/ Summary
    \/ GitSummary
    \/ Goodbye
    \/ Help
    \/ Restart
    \/ HookRun

Spec == Init /\ [][Next]_vars

----------------------------------------------------------------------------
(* SpecConc: a logActivity call of the server process, step by step, while  *)
(* hooks run.  The repository is initialized and active and the session has *)
(* started, so devctx_log passes autoSessionStart and guardActive unchanged *)
(* and reaches logActivity.                                                 *)

InitConc ==
    /\ fs = [InitFs EXCEPT !.dir = TRUE, !.gitignore = TRUE, !.hooks = TRUE,
                           !.state = defaultState(0),
                           !.ledger = <<Entry(0, 0, "session_start", "Session started", "proc")>>,
                           !.nseq = 1]
    /\ sessionStarted = TRUE
    /\ pendingGreeting = NoGreeting
    /\ now = 0
    /\ lastResult = "none"
    /\ greeted = FALSE
    /\ pc = "idle"
    /\ existing = <<>>
    /\ line = Entry(0, 0, "none", "none", "proc")
    /\ hookPc = [h \in Hooks |-> "idle"]
    /\ hookLine = [h \in Hooks |-> hookEntry(0, 0)]
    /\ completed = {[id |-> 0, end |-> 1, src |-> "proc"]}
    /\ hookStatus = [sub |-> 0, exit |-> 0]
    /\ doc = <<>>
    /\ hookFile = NoFile
    /\ synced = NoSync
    /\ rd = NoRead
    /\ nz = NoText
    /\ sc = NoScan
    /\ waiting = <<>>
    /\ bn = [files |-> {}, listed |-> {}, got |-> ""]

\* logActivity lines 212-220: the entry is stamped and serialized
LogStamp ==
    /\ pc = "idle"
    /\ fs.nseq < MaxAppends
    /\ \E type \in LogTypes : line' = Entry(fs.nseq, now, type, "", "proc")
    /\ fs' = [ensuredevctxDir(fs) EXCEPT !.nseq = @ + 1]
    /\ pc' = "read"
    /\ UNCHANGED <<waiting, pureVars, syncVars, hookStatus, procVars, now, existing, hookPc, hookLine, completed>>

\* existsSync(logFile), readFileSync(logFile): an absent file reads as empty
LogRead ==
    /\ pc = "read"
    /\ existing' = fs.ledger
    /\ pc' = "open"
    /\ UNCHANGED <<waiting, pureVars, syncVars, hookStatus, fs, procVars, now, line, hookPc, hookLine, completed>>

\* writeFileSync opens the file with O_TRUNC
LogOpen ==
    /\ pc = "open"
    /\ fs' = [fs EXCEPT !.ledger = <<>>]
    /\ pc' = "write"
    /\ UNCHANGED <<waiting, pureVars, syncVars, hookStatus, procVars, now, existing, line, hookPc, hookLine, completed>>

\* what a write of `content` at offset 0 leaves of a file holding `file`
writeAtStart(file, content) ==
    content \o SubSeq(file, Len(content) + 1, Len(file))

\* writeFileSync writes existing + line from offset 0 and closes
LogWrite ==
    /\ pc = "write"
    /\ fs' = [fs EXCEPT !.ledger = writeAtStart(fs.ledger, logContent(existing, line))]
    /\ completed' = completed \cup {[id |-> line.id, end |-> fs.nseq, src |-> "proc"]}
    /\ pc' = "idle"
    /\ lastResult' = "ok"
    /\ UNCHANGED <<waiting, pureVars, syncVars, hookStatus, sessionStarted, pendingGreeting, greeted, now, existing, line,
                   hookPc, hookLine>>

\* the fragment up to TIMESTAMP=...: the directory test and the stamp
HookStamp(h) ==
    /\ hookPc[h] = "idle"
    /\ fs.hooks /\ fs.dir
    /\ fs.nseq < MaxAppends
    /\ hookLine' = [hookLine EXCEPT ![h] = hookEntry(fs.nseq, now)]
    /\ fs' = [fs EXCEPT !.nseq = @ + 1]
    /\ hookPc' = [hookPc EXCEPT ![h] = "append"]
    /\ UNCHANGED <<waiting, pureVars, syncVars, hookStatus, procVars, now, pc, existing, line, completed>>

\* printf ... >> activity.log : one O_APPEND write
HookAppend(h) ==
    /\ hookPc[h] = "append"
    /\ fs' = [fs EXCEPT !.ledger = Append(@, hookLine[h])]
    /\ completed' = completed \cup {[id |-> hookLine[h].id, end |-> fs.nseq, src |-> "hook"]}
    /\ hookPc' = [hookPc EXCEPT ![h] = "idle"]
    /\ UNCHANGED <<waiting, pureVars, syncVars, hookStatus, procVars, now, pc, existing, line, hookLine>>

\* the clock moves on by a millisecond, or to the start of the next second
TickTo(t) ==
    /\ now' = t
    /\ UNCHANGED <<waiting, pureVars, syncVars, hookStatus, fs, procVars, concVars>>

Tick ==
    \/ /\ now % MsPerSecond < MaxMillis
       /\ TickTo(now + 1)
    \/ /\ now \div MsPerSecond < MaxSeconds
       /\ TickTo((now \div MsPerSecond + 1) * MsPerSecond)

NextConc ==
    \/ LogStamp
    \/ LogRead
    \/ LogOpen
    \/ LogWrite
    \/ \E h \in Hooks : HookStamp(h)
    \/ \E h \in Hooks : HookAppend(h)
    \/ Tick

SpecConc == InitConc /\ [][NextConc]_vars

----------------------------------------------------------------------------
(* SpecStore: the todo store of state.ts called directly, as its tests call *)
(* it, with the clock running.                                              *)

\* a call that leaves the file system f and returns the given signal
\* ("not_found": null of updateTodo, false of removeTodo)
StoreCall(f, result) ==
    /\ Len(f.todos) <= MaxTodos
    /\ fs' = f
    /\ lastResult' = result
    /\ UNCHANGED <<waiting, pureVars, syncVars, hookStatus, sessionStarted, pendingGreeting, greeted, now, concVars>>

AddTodoCall == StoreCall(addTodo(fs, "task", now), "ok")

UpdateTodoCall ==
    \E id \in TodoIds, status \in Statuses :
        StoreCall(updateTodo(fs, id, status, now),
                  IF updateTodoFound(fs, id) THEN "ok" ELSE "not_found")

RemoveTodoCall ==
    \E id \in TodoIds :
        StoreCall(IF removeTodoFound(fs, id) THEN removeTodo(fs, id)
                  ELSE ensuredevctxDir(fs),
                  IF removeTodoFound(fs, id) THEN "ok" ELSE "not_found")

\* the insertion loop of devctx_goodbye
GoodbyeInsert ==
    \E suggested \in {<<"suggestion">>, <<"suggestion", "other">>} :
        StoreCall(addSuggested(fs, suggested, now), "ok")

NextStore ==
    \/ AddTodoCall
    \/ UpdateTodoCall
    \/ RemoveTodoCall
    \/ GoodbyeInsert
    \/ now < MaxMillis /\ TickTo(now + 1)

SpecStore == Init /\ [][NextStore]_vars

----------------------------------------------------------------------------
(* SpecSession: sessions ended with devctx_goodbye, paused with devctx_stop *)
(* and resumed with devctx_start in one process, with the clock running.  The repository is  *)
(* initialized and active and the session has started.                      *)

\* a goodbye in which no write throws, or one does
SessionGoodbye ==
    \E outcome \in NarrativeOutcomes, suggested \in Suggestions,
       fail \in {"none", "record", "pause", "sync"} :
        InvokeWithin(devctx_goodbye(fs, sessionStarted, pendingGreeting, now,
                                    outcome, suggested, fail), MaxSessionLedger)

SessionResume ==
    InvokeWithin(devctx_start(fs, sessionStarted, pendingGreeting, now), MaxSessionLedger)

\* devctx_goodbye up to its await: session start, guards, context; the
\* invocation is suspended with the session start time it has read
GoodbyeBegin ==
    LET s  == autoSessionStart(fs, sessionStarted, pendingGreeting, now)
        f1 == guardActiveFs(s.fs, now)
        c  == getProjectState(f1, now).fs
    IN  /\ ~guardActive(s.fs, now) /\ ~guardInitialized(f1)
        /\ Len(waiting) < MaxWaiting
        /\ Within(c, MaxSessionLedger)
        /\ fs' = c
        /\ sessionStarted' = s.started
        /\ pendingGreeting' = s.greeting
        /\ waiting' = Append(waiting, sessionStartTime(c))
        /\ UNCHANGED <<pureVars, syncVars, hookStatus, lastResult, greeted, now, concVars>>

\* the awaited call of a suspended invocation settles and the handler runs
\* to its return
GoodbyeFinish ==
    \E k \in 1..Len(waiting), outcome \in NarrativeOutcomes, suggested \in Suggestions :
        LET o == devctx_goodbye_afterAwait(
                     fs, [started |-> sessionStarted, greeting |-> pendingGreeting],
                     now, waiting[k], outcome, suggested, "none")
        IN  /\ Within(o.fs, MaxSessionLedger)
            /\ fs' = o.fs
            /\ lastResult' = o.result
            /\ greeted' = o.greeted
            /\ waiting' = SubSeq(waiting, 1, k - 1) \o SubSeq(waiting, k + 1, Len(waiting))
            /\ UNCHANGED <<pureVars, syncVars, hookStatus, sessionStarted, pendingGreeting,
                           now, concVars>>

NextSession ==
    \/ SessionGoodbye
    \/ GoodbyeBegin
    \/ GoodbyeFinish
    \/ SessionResume
    \/ InvokeWithin(devctx_stop(fs, sessionStarted, pendingGreeting, now), MaxSessionLedger)
    \/ Tick

SpecSession == InitConc /\ [][NextSession]_vars

----------------------------------------------------------------------------
(* SpecRead: a reader of state.ts called on files of any content.           *)

InitRead ==
    /\ fs = InitFs
    /\ sessionStarted = FALSE
    /\ pendingGreeting = NoGreeting
    /\ now = 0
    /\ lastResult = "none"
    /\ greeted = FALSE
    /\ pc = "idle"
    /\ existing = <<>>
    /\ line = Entry(0, 0, "none", "none", "proc")
    /\ hookPc = [h \in Hooks |-> "idle"]
    /\ hookLine = [h \in Hooks |-> hookEntry(0, 0)]
    /\ completed = {}
    /\ hookStatus = [sub |-> 0, exit |-> 0]
    /\ doc = <<>>
    /\ hookFile = NoFile
    /\ synced = NoSync
    /\ \E state \in Shapes, todos \in Shapes :
         \E ledger \in UNION {[1..k -> Shapes \ {"absent", "list"}] : k \in 0..MaxLines} :
            rd = [NoRead EXCEPT !.state = state, !.todos = todos, !.ledger = ledger]
    /\ nz = NoText
    /\ sc = NoScan
    /\ waiting = <<>>
    /\ bn = [files |-> {}, listed |-> {}, got |-> ""]

\* the reader runs; getProjectState leaves the default behind where it
\* built one
ReadWith(reader, filtered) ==
    /\ LET r == CASE reader = "getProjectState" -> getProjectStateRaw(rd.state)
                  [] reader = "isDevctxActive" -> isDevctxActiveRaw(rd.state)
                  [] reader = "getTodos" -> getTodosRaw(rd.todos, filtered)
                  [] reader = "getRecentActivity" -> getRecentActivityRaw(rd.ledger)
                  [] reader = "getLastActivityByType" -> getLastActivityByTypeRaw(rd.ledger)
       IN  rd' = [rd EXCEPT !.reader = reader, !.threw = r.threw, !.value = r.value,
                            !.state = IF /\ reader \in {"getProjectState", "isDevctxActive"}
                                         /\ @ \in {"absent", "unparseable"}
                                      THEN "object" ELSE @]
    /\ UNCHANGED <<waiting, bn, nz, sc, syncVars, hookStatus, fs, procVars, now, concVars>>

SpecRead ==
    InitRead /\ [][\E reader \in {"getProjectState", "isDevctxActive", "getTodos",
                                  "getRecentActivity", "getLastActivityByType"},
                      filtered \in BOOLEAN : ReadWith(reader, filtered)]_vars

----------------------------------------------------------------------------
(* SpecNorm: normalize and isSimilarToAny applied to a short text and a     *)
(* list of at most one signature.                                           *)

InitNorm ==
    /\ fs = InitFs
    /\ sessionStarted = FALSE
    /\ pendingGreeting = NoGreeting
    /\ now = 0
    /\ lastResult = "none"
    /\ greeted = FALSE
    /\ pc = "idle"
    /\ existing = <<>>
    /\ line = Entry(0, 0, "none", "none", "proc")
    /\ hookPc = [h \in Hooks |-> "idle"]
    /\ hookLine = [h \in Hooks |-> hookEntry(0, 0)]
    /\ completed = {}
    /\ hookStatus = [sub |-> 0, exit |-> 0]
    /\ doc = <<>>
    /\ hookFile = NoFile
    /\ synced = NoSync
    /\ rd = NoRead
    /\ \E text \in UNION {[1..k -> Words] : k \in 0..MaxWords} :
         \E sigs \in {<<>>} \cup {<<normalize(y)>> : y \in UNION {[1..k -> Words] : k \in 0..MaxWords}} :
            nz = [NoText EXCEPT !.text = text, !.sigs = sigs]
    /\ sc = NoScan
    /\ waiting = <<>>
    /\ bn = [files |-> {}, listed |-> {}, got |-> ""]

\* normalize(text); normalize of the signature that gave; isSimilarToAny
NormCall(op) ==
    /\ \/ /\ op = "normalize"
          /\ nz' = [nz EXCEPT !.op = op, !.out = normalize(nz.text), !.prev = <<>>]
       \/ /\ op = "renormalize"
          /\ nz.op = "normalize"
          /\ nz' = [nz EXCEPT !.op = op, !.out = normalize(nz.out), !.prev = nz.out]
       \/ /\ op = "isSimilarToAny"
          /\ nz' = [nz EXCEPT !.op = op, !.similar = isSimilarToAny(nz.text, nz.sigs)]
    /\ UNCHANGED <<waiting, bn, rd, sc, syncVars, hookStatus, fs, procVars, now, concVars>>

SpecNorm ==
    InitNorm /\ [][\E op \in {"normalize", "renormalize", "isSimilarToAny"} : NormCall(op)]_vars

----------------------------------------------------------------------------
(* SpecScan: scanSourceTodos on a chain of MaxTreeDepth + 1 directories     *)
(* with the same files in each, one of them with any kind of name and       *)
(* readable or not.                                                         *)

InitScan ==
    /\ fs = InitFs
    /\ sessionStarted = FALSE
    /\ pendingGreeting = NoGreeting
    /\ now = 0
    /\ lastResult = "none"
    /\ greeted = FALSE
    /\ pc = "idle"
    /\ existing = <<>>
    /\ line = Entry(0, 0, "none", "none", "proc")
    /\ hookPc = [h \in Hooks |-> "idle"]
    /\ hookLine = [h \in Hooks |-> hookEntry(0, 0)]
    /\ completed = {}
    /\ hookStatus = [sub |-> 0, exit |-> 0]
    /\ doc = <<>>
    /\ hookFile = NoFile
    /\ synced = NoSync
    /\ rd = NoRead
    /\ nz = NoText
    /\ \E p \in 1..(MaxTreeDepth + 1), kind \in {"plain", "skipped", "dot"},
          readable \in BOOLEAN, files \in {0, 1, 120, 501},
          fileReadable \in BOOLEAN, todoLine \in {1, 10000, 10001},
          dirFirst \in BOOLEAN :
         sc = [NoScan EXCEPT
                 !.dirFirst = dirFirst,
                 !.tree = [d \in 1..(MaxTreeDepth + 1) |->
                             [kind |-> IF d = p THEN kind ELSE "plain",
                              readable |-> IF d = p THEN readable ELSE TRUE,
                              files |-> files, fileReadable |-> fileReadable,
                              todoLine |-> todoLine]]]
    /\ waiting = <<>>
    /\ bn = [files |-> {}, listed |-> {}, got |-> ""]

ScanCall ==
    /\ ~sc.done
    /\ sc' = [sc EXCEPT !.done = TRUE,
                        !.total = scanSourceTodos(sc.tree, sc.dirFirst).total,
                        !.records = scanSourceTodos(sc.tree, sc.dirFirst).records]
    /\ UNCHANGED <<waiting, bn, rd, nz, syncVars, hookStatus, fs, procVars, now, concVars>>

SpecScan == InitScan /\ [][ScanCall]_vars

----------------------------------------------------------------------------
(* SpecNotes: branch notes saved, read and listed by branch name.  A branch *)
(* name is a sequence of characters; the branches directory is the set of   *)
(* its files, each a name and a content.                                    *)

\* git branch names of at most MaxName characters: no "/" at either end,
\* no "//"
BranchNames ==
    {b \in UNION {[1..n -> {"f", "/", "_"}] : n \in 1..MaxName} :
        /\ b[1] # "/" /\ b[Len(b)] # "/"
        /\ \A i \in 1..(Len(b) - 1) : ~(b[i] = "/" /\ b[i + 1] = "/")}

\* branch.replace(/\//g, "__") + ".md"
branchFileName(branch) ==
    LET RECURSIVE replace(_)
        replace(b) == IF b = <<>> THEN <<>>
                      ELSE (IF Head(b) = "/" THEN <<"_", "_">> ELSE <<Head(b)>>)
                           \o replace(Tail(b))
    IN  replace(branch) \o <<".md">>

getBranchNotes(files, branch) ==
    IF \E r \in files : r.name = branchFileName(branch)
    THEN (CHOOSE r \in files : r.name = branchFileName(branch)).content
    ELSE ""

\* writeFileSync: the file of that name is created or overwritten
saveBranchNotesAs(files, branch, content) ==
    {r \in files : r.name # branchFileName(branch)}
        \cup {[name |-> branchFileName(branch), content |-> content]}

\* the files ending in ".md", "__" replaced by "/" from the left, the
\* ending taken off
listBranchNotes(files) ==
    LET RECURSIVE replace(_)
        replace(f) == IF Len(f) >= 2 /\ f[1] = "_" /\ f[2] = "_"
                      THEN <<"/">> \o replace(SubSeq(f, 3, Len(f)))
                      ELSE IF f = <<>> THEN <<>>
                      ELSE <<Head(f)>> \o replace(Tail(f))
    IN  {replace(SubSeq(r.name, 1, Len(r.name) - 1)) :
            r \in {x \in files : x.name[Len(x.name)] = ".md"}}

NotesCall ==
    /\ \/ \E branch \in BranchNames, content \in {"one", "two"} :
              LET d == saveBranchNotesAs(bn.files, branch, content)
              IN  /\ Cardinality(d) <= MaxBranchFiles
                  /\ bn' = [bn EXCEPT !.files = d]
       \/ \E branch \in BranchNames :
              bn' = [bn EXCEPT !.got = getBranchNotes(bn.files, branch)]
       \/ bn' = [bn EXCEPT !.listed = listBranchNotes(bn.files)]
    /\ UNCHANGED <<waiting, rd, nz, sc, syncVars, hookStatus, fs, procVars, now, concVars>>

SpecNotes == Init /\ [][NotesCall]_vars

----------------------------------------------------------------------------
(* SpecSync: updateClaudeMd and installHooks applied, any number of times,  *)
(* to a CLAUDE.md and a hook script that start with any short text.         *)

DocTokens == {StartMarker, EndMarker, Newline, Space, "text"}

Texts(n) == UNION {[1..k -> DocTokens] : k \in 0..n}

\* what builddevctxSection renders between the markers (focus, todos, ...)
Rendered == {"r1", "r2"}

InitSync ==
    /\ fs = InitFs
    /\ sessionStarted = FALSE
    /\ pendingGreeting = NoGreeting
    /\ now = 0
    /\ lastResult = "none"
    /\ greeted = FALSE
    /\ pc = "idle"
    /\ existing = <<>>
    /\ line = Entry(0, 0, "none", "none", "proc")
    /\ hookPc = [h \in Hooks |-> "idle"]
    /\ hookLine = [h \in Hooks |-> hookEntry(0, 0)]
    /\ completed = {}
    /\ hookStatus = [sub |-> 0, exit |-> 0]
    /\ doc \in Texts(MaxDoc)
    /\ hookFile \in {NoFile} \cup {[present |-> TRUE, text |-> t] : t \in Texts(MaxHookText)}
    /\ synced = NoSync
    /\ rd = NoRead
    /\ nz = NoText
    /\ sc = NoScan
    /\ waiting = <<>>
    /\ bn = [files |-> {}, listed |-> {}, got |-> ""]

SyncClaudeMd(rendered) ==
    /\ Len(updateClaudeMdContent(doc, builddevctxSection(rendered))) <= MaxGrown
    /\ doc' = updateClaudeMdContent(doc, builddevctxSection(rendered))
    /\ synced' = [synced EXCEPT !.claude = rendered]
    /\ UNCHANGED <<waiting, pureVars, fs, procVars, now, concVars, hookStatus, hookFile>>

InstallHookFile ==
    /\ Len(installHookFile(hookFile, generatePostCommitHook).text) <= MaxGrown
    /\ hookFile' = installHookFile(hookFile, generatePostCommitHook)
    /\ synced' = [synced EXCEPT !.hooks = TRUE]
    /\ UNCHANGED <<waiting, pureVars, fs, procVars, now, concVars, hookStatus, doc>>

NextSync ==
    \/ \E rendered \in Rendered : SyncClaudeMd(rendered)
    \/ InstallHookFile

SpecSync == InitSync /\ [][NextSync]_vars

----------------------------------------------------------------------------
(* SpecHooks: the four hook fragments run by git, in a repository whose     *)
(* .devctx directory exists or does not (hooks stay in .git/hooks when the  *)
(* directory is deleted), with any environment and any step failing.        *)

InitHooks ==
    /\ \E dir \in BOOLEAN : fs = [InitFs EXCEPT !.dir = dir, !.hooks = TRUE]
    /\ sessionStarted = FALSE
    /\ pendingGreeting = NoGreeting
    /\ now = 0
    /\ lastResult = "none"
    /\ greeted = FALSE
    /\ pc = "idle"
    /\ existing = <<>>
    /\ line = Entry(0, 0, "none", "none", "proc")
    /\ hookPc = [h \in Hooks |-> "idle"]
    /\ hookLine = [h \in Hooks |-> hookEntry(0, 0)]
    /\ completed = {}
    /\ hookStatus = [sub |-> 0, exit |-> 0]
    /\ doc = <<>>
    /\ hookFile = NoFile
    /\ synced = NoSync
    /\ rd = NoRead
    /\ nz = NoText
    /\ sc = NoScan
    /\ waiting = <<>>
    /\ bn = [files |-> {}, listed |-> {}, got |-> ""]

FragmentRun(kind, branchCheckout, skip, fail) ==
    /\ fs.hooks
    /\ WithinBounds(runFragment(fs, now, kind, branchCheckout, skip, fail).fs)
    /\ fs' = runFragment(fs, now, kind, branchCheckout, skip, fail).fs
    /\ hookStatus' = [sub |-> runFragment(fs, now, kind, branchCheckout, skip, fail).sub,
                      exit |-> runFragment(fs, now, kind, branchCheckout, skip, fail).exit]
    /\ UNCHANGED <<waiting, pureVars, procVars, now, concVars, syncVars>>

AnyFragmentRun ==
    \E kind \in HookKinds, branchCheckout \in BOOLEAN, skip \in BOOLEAN, fail \in HookFailures :
        FragmentRun(kind, branchCheckout, skip, fail)

\* devctx_init or any writer of state.ts creates the directory
MakeDir ==
    /\ ~fs.dir
    /\ fs' = ensuredevctxDir(fs)
    /\ UNCHANGED <<waiting, pureVars, procVars, now, concVars, syncVars, hookStatus>>

NextHooks ==
    \/ AnyFragmentRun
    \/ MakeDir
    \/ Tick

SpecHooks == InitHooks /\ [][NextHooks]_vars

----------------------------------------------------------------------------
(* Vocabulary of the properties *)

IsPrefix(a, b) == Len(a) <= Len(b) /\ SubSeq(b, 1, Len(a)) = a

Paused(f) == f.state.present /\ ~f.state.active

SessionStartCount(f) ==
    Cardinality({i \in 1..Len(f.ledger) : f.ledger[i].msg = "Session started"})

\* a step of a tool whose handler calls autoSessionStart
SessionToolStep ==
    \/ Whereami \/ UpdateFocus \/ Log \/ Activity \/ TodoAdd \/ TodoUpdate
    \/ TodoList \/ TodoRemove \/ BranchNotes \/ BranchNotesSave \/ Sync
    \/ Stop \/ Start \/ Status \/ Summary \/ GitSummary \/ Goodbye

ToolStep == SessionToolStep \/ InitTool \/ Help

\* a step of one of the write tools
WriteStep ==
    \/ UpdateFocus \/ Log \/ TodoAdd \/ TodoUpdate \/ TodoRemove
    \/ BranchNotesSave \/ Sync \/ Goodbye

DocumentsUnchanged ==
    /\ fs'.state = fs.state
    /\ fs'.todos = fs.todos
    /\ fs'.ledger = fs.ledger
    /\ fs'.notes = fs.notes
    /\ fs'.claude = fs.claude

----------------------------------------------------------------------------
C2_FirstWriteResumes ==
    [][(~sessionStarted /\ isDevctxInitialized(fs) /\ Paused(fs) /\ WriteStep)
          => /\ lastResult' \in {"ok", "not_found"}
             /\ sessionStarted'
             /\ pendingGreeting'.present /\ pendingGreeting'.resumed
             /\ TodoAdd => Len(fs'.todos) = Len(fs.todos) + 1
             /\ Log => Len(fs'.ledger) = Len(fs.ledger) + 2]_vars

\* a todo was added and logged right after a resuming session start, the
\* greeting that reports the resume still waiting for a read tool
C2_Witness ==
    /\ sessionStarted
    /\ pendingGreeting.present /\ pendingGreeting.resumed
    /\ lastResult = "ok"
    /\ Len(fs.todos) >= 1
    /\ Len(fs.ledger) >= 2
    /\ fs.ledger[Len(fs.ledger) - 1].msg = "Session started"
    /\ fs.ledger[Len(fs.ledger)].type = "note"

(* C3: a write tool invoked while the project is paused and the session of  *)
(* the process has started returns the paused result and leaves the state   *)
(* document, the todo list, the ledger, the branch notes and CLAUDE.md as   *)
(* they were.                                                               *)
C3_PausedWriteBlocked ==
    [][(sessionStarted /\ Paused(fs) /\ WriteStep)
          => (lastResult' = "paused" /\ DocumentsUnchanged)]_vars

C3_Witness ==
    /\ sessionStarted
    /\ Paused(fs)
    /\ lastResult = "paused"
    /\ Len(fs.ledger) >= 2

(* C4, as stated: on a repository that is not initialized every tool other  *)
(* than devctx_init returns the not-initialized result, changes no document *)
(* and leaves the repository uninitialized.                                 *)
C4_UninitializedBlocked ==
    [][((SessionToolStep \/ Help) /\ ~isDevctxInitialized(fs))
          => /\ lastResult' = "not_initialized"
             /\ ~isDevctxInitialized(fs')
             /\ DocumentsUnchanged]_vars

C6_LedgerAppendOnly ==
    [][IsPrefix(fs.ledger, fs'.ledger)]_vars

\* the ledger holds lines of the process and of a hook
C6_Witness ==
    /\ Len(fs.ledger) >= 3
    /\ \E i \in 1..Len(fs.ledger) : fs.ledger[i].src = "hook"
    /\ fs.ledger[Len(fs.ledger)].src = "proc"

----------------------------------------------------------------------------
(* Vocabulary of the ledger properties under concurrent writers *)

InLedger(id) == \E i \in 1..Len(fs.ledger) : fs.ledger[i].id = id

\* appends that returned and whose line is not in the ledger
Lost == {c \in completed : ~InLedger(c.id)}

\* ids are handed out when an append begins; `end` is the number of appends
\* begun when it returned: two appends overlap when the later one began
\* before the earlier one returned
Overlap(a, b) ==
    /\ a.id < b.id => b.id < a.end
    /\ b.id < a.id => a.id < b.end

Quiescent == pc = "idle" /\ \A h \in Hooks : hookPc[h] = "idle"

(* C7, as stated: every entry written by a writer is in the ledger once all *)
(* writers have finished.                                                   *)
C7_NoEntryLost ==
    Quiescent => Lost = {}

(* C8, as stated: in every ledger the timestamps do not decrease in file    *)
(* order.                                                                   *)
C8_TimeOrder ==
    \A i, j \in 1..Len(fs.ledger) : i < j => fs.ledger[i].ts <= fs.ledger[j].ts

C10_UniqueTodoIds ==
    \A i, j \in 1..Len(fs.todos) : i # j => fs.todos[i].id # fs.todos[j].id

----------------------------------------------------------------------------
(* Vocabulary of the properties of the marker-bounded section *)

BothMarkers(content) == includes(content, StartMarker) /\ includes(content, EndMarker)

Count(content, marker) == Cardinality({i \in 1..Len(content) : content[i] = marker})

\* one start marker, one end marker, the start before the end
OneRegion(content) ==
    /\ Count(content, StartMarker) = 1
    /\ Count(content, EndMarker) = 1
    /\ indexOf(content, StartMarker) < indexOf(content, EndMarker)

SyncStep == \E rendered \in Rendered : SyncClaudeMd(rendered)

(* C11, as stated: a sync of CLAUDE.md with the section that the previous   *)
(* sync wrote leaves the document as it is, whatever the document was       *)
(* before the first of the two.                                             *)
C11_SyncIdempotent ==
    [][\A rendered \in Rendered :
          (SyncClaudeMd(rendered) /\ synced.claude = rendered) => doc' = doc]_vars

(* C12, as stated: when the text holds both markers, the sync writes        *)
(* before + (start marker + content + end marker) + after, at CLAUDE.md     *)
(* and at the hook script, before being the text up to the start marker     *)
(* and after the text behind the end marker.                                *)
C12_ReplaceExact ==
    [][/\ \A rendered \in Rendered :
            (SyncClaudeMd(rendered) /\ BothMarkers(doc))
               => doc' = before(doc) \o <<StartMarker, rendered, EndMarker>> \o after(doc)
       /\ (InstallHookFile /\ hookFile.present /\ BothMarkers(hookFile.text))
            => hookFile'.text = before(hookFile.text)
                                   \o <<StartMarker, "script", EndMarker>>
                                   \o after(hookFile.text)]_vars

C14_OneRegion ==
    [][SyncStep => /\ OneRegion(doc')
                   /\ OneRegion(doc) => /\ before(doc') = before(doc)
                                        /\ after(doc') = after(doc)]_vars

(* C15, as stated: installHooks run on a hook script that installHooks has  *)
(* written leaves the script as it is.                                      *)
C15_InstallIdempotent ==
    [][(InstallHookFile /\ synced.hooks) => hookFile' = hookFile]_vars

----------------------------------------------------------------------------
(* C16, as stated: a fragment run with DEVCTX_SKIP_HOOKS set appends        *)
(* nothing to the ledger.                                                   *)
C16_SkipHonored ==
    [][(\E kind \in HookKinds, branchCheckout \in BOOLEAN, fail \in HookFailures :
            FragmentRun(kind, branchCheckout, TRUE, fail))
          => fs'.ledger = fs.ledger]_vars

(* C17: whatever fails inside a fragment, the fragment ends with status 0.  *)
C17_FragmentSucceeds ==
    [][hookStatus'.exit = 0 \/ ~AnyFragmentRun]_vars

\* the subshell of the last fragment ended with a failure status
C17_Witness ==
    /\ hookStatus.sub = 1
    /\ hookStatus.exit = 0
    /\ fs.dir

----------------------------------------------------------------------------
(* C19: a devctx_goodbye invocation that passes the guards while the        *)
(* narrative collaborator fails (no key, rejected call, response without    *)
(* text) writes one session record, holding the fallback narrative, appends *)
(* session_end as the last ledger entry, leaves the project paused and      *)
(* returns its normal result.                                               *)
C19_GoodbyeDegrades ==
    [][\A outcome \in NarrativeOutcomes \ {"text"}, suggested \in Suggestions :
          (/\ lastResult' \notin {"paused", "not_initialized", "none"}
           /\ GoodbyeWith(outcome, suggested))
             => /\ lastResult' = "ok"
                /\ \E r \in fs'.sessions :
                      /\ r.name = sessionFileName(now)
                      /\ r.narrative = "fallback"
                      /\ r.todos = suggested
                /\ fs'.ledger[Len(fs'.ledger)].type = "session_end"
                /\ Cardinality({i \in 1..Len(fs'.ledger) : fs'.ledger[i].type = "session_end"})
                     = Cardinality({i \in 1..Len(fs.ledger) : fs.ledger[i].type = "session_end"}) + 1
                /\ Paused(fs')
                /\ Len(fs'.todos) = Len(fs.todos) + Len(suggested)]_vars

\* a goodbye that fell back, and added the todo the fallback suggested
C19_Witness ==
    /\ \E r \in fs.sessions : r.narrative = "fallback" /\ r.todos = <<"task">>
    /\ lastResult = "ok"
    /\ Paused(fs)
    /\ fs.ledger[Len(fs.ledger)].type = "session_end"
    /\ Len(fs.todos) = 1 /\ fs.todos[1].text = "task"

----------------------------------------------------------------------------
(* C21: devctx_goodbye passes the suggested todos through the similarity    *)
(* deduplicator against the active (not done) todos: a suggestion whose     *)
(* text is that of an active todo (identical text is similar) is not        *)
(* inserted, any other suggestion is inserted once.                         *)
C21_SuggestionsDeduplicated ==
    [][\A outcome \in NarrativeOutcomes, suggested \in Suggestions :
          (lastResult' = "ok" /\ GoodbyeWith(outcome, suggested))
             => \A k \in 1..Len(suggested) :
                   Cardinality({i \in 1..Len(fs'.todos) : fs'.todos[i].text = suggested[k]})
                     = Cardinality({i \in 1..Len(fs.todos) : fs.todos[i].text = suggested[k]})
                       + (IF \E j \in 1..Len(fs.todos) :
                                 /\ fs.todos[j].status # "done"
                                 /\ fs.todos[j].text = suggested[k]
                          THEN 0 ELSE 1)]_vars

(* C22: every todo that devctx_goodbye inserts is stored with source        *)
(* "suggested", every todo that devctx_todo_add inserts with source         *)
(* "manual".                                                                *)
C22_SourceRecorded ==
    [][/\ \A outcome \in NarrativeOutcomes, suggested \in Suggestions :
            (lastResult' = "ok" /\ GoodbyeWith(outcome, suggested))
               => \A i \in (Len(fs.todos) + 1)..Len(fs'.todos) :
                     fs'.todos[i].source = "suggested"
       /\ (lastResult' = "ok" /\ TodoAdd)
            => fs'.todos[Len(fs'.todos)].source = "manual"]_vars

(* C23: the greeting that autoSessionStart stashes is prepended to the next *)
(* successful tool response, whichever tool gives it, and to no other: a    *)
(* successful response of a tool that calls autoSessionStart shows the      *)
(* greeting exactly when one was pending or was stashed by that call, and   *)
(* leaves none pending.                                                     *)
C23_GreetingOnNextResponse ==
    [][(lastResult' = "ok" /\ SessionToolStep)
          => /\ greeted' = autoSessionStart(fs, sessionStarted, pendingGreeting, now).greeting.present
             /\ ~pendingGreeting'.present]_vars

----------------------------------------------------------------------------
(* C25: devctx_init on an initialized repository.  Without force it says so *)
(* and changes nothing: state document, ledger, todos, branch notes, hook   *)
(* files and CLAUDE.md stay as they were.  With force it succeeds, leaves   *)
(* the project active with the focus it was given, and leaves the todo      *)
(* list, the ledger entries that existed and the branch notes as they were. *)
C25_ReinitSafe ==
    [][\A focus \in Focuses \cup {NoFocus}, force \in BOOLEAN :
          (/\ fs.state.present
           /\ lastResult' \in {"ok", "already_initialized"}
           /\ Invoke(devctx_init(fs, sessionStarted, pendingGreeting, now, focus, force)))
             => IF force
                THEN /\ lastResult' = "ok"
                     /\ fs'.todos = fs.todos
                     /\ IsPrefix(fs.ledger, fs'.ledger)
                     /\ fs'.notes = fs.notes
                     /\ fs'.state.active
                     /\ focus # NoFocus => fs'.state.focus = focus
                ELSE /\ lastResult' = "already_initialized"
                     /\ fs' = fs]_vars

\* a forced re-init, with a focus, of a repository that had a todo and
\* ledger entries
C25_Witness ==
    /\ lastResult = "ok"
    /\ Len(fs.ledger) >= 2
    /\ fs.ledger[Len(fs.ledger)].type = "milestone"
    /\ Len(fs.todos) >= 1
    /\ fs.state.focus # NoFocus

(* C26: after a successful devctx_todo_add, devctx_todo_update or           *)
(* devctx_todo_remove with default options (sync_claude_md = true) the      *)
(* devctx section of CLAUDE.md lists exactly the todos of the store whose   *)
(* status is not done.                                                      *)
C26_ClaudeMdInSync ==
    [][(/\ lastResult' = "ok"
        /\ \/ Invoke(devctx_todo_add(fs, sessionStarted, pendingGreeting, now, "task", TRUE))
           \/ \E id \in TodoIds, status \in Statuses :
                 Invoke(devctx_todo_update(fs, sessionStarted, pendingGreeting, now,
                                           id, status, TRUE))
           \/ TodoRemove)
          => /\ fs'.claude.present
             /\ fs'.claude.todos = SelectSeq(fs'.todos, LAMBDA x : x.status # "done")]_vars

(* C28: updateTodo and removeTodo called with an id that no todo has signal *)
(* not-found and leave the todo document as it was; updateTodo called with  *)
(* the id of a todo sets the given field and the updated stamp of that one  *)
(* todo, keeps its id, text and created stamp, and leaves every other todo  *)
(* as it was.                                                               *)
C28_UpdateRemoveExact ==
    [][\A id \in TodoIds :
          /\ \A status \in Statuses :
                StoreCall(updateTodo(fs, id, status, now),
                          IF updateTodoFound(fs, id) THEN "ok" ELSE "not_found")
                  => IF \E i \in 1..Len(fs.todos) : fs.todos[i].id = id
                     THEN /\ lastResult' = "ok"
                          /\ Len(fs'.todos) = Len(fs.todos)
                          /\ \E i \in 1..Len(fs.todos) :
                                /\ fs.todos[i].id = id
                                /\ fs'.todos[i].id = id
                                /\ fs'.todos[i].text = fs.todos[i].text
                                /\ fs'.todos[i].created = fs.todos[i].created
                                /\ fs'.todos[i].source = fs.todos[i].source
                                /\ fs'.todos[i].status = status
                                /\ fs'.todos[i].updated = now
                                /\ \A j \in 1..Len(fs.todos) :
                                      j # i => fs'.todos[j] = fs.todos[j]
                     ELSE lastResult' = "not_found" /\ fs'.todos = fs.todos
          /\ (/\ \A i \in 1..Len(fs.todos) : fs.todos[i].id # id
              /\ StoreCall(IF removeTodoFound(fs, id) THEN removeTodo(fs, id)
                           ELSE ensuredevctxDir(fs),
                           IF removeTodoFound(fs, id) THEN "ok" ELSE "not_found"))
                => lastResult' = "not_found" /\ fs'.todos = fs.todos]_vars

\* a todo marked done later than it was created, its created stamp kept
C28_Witness ==
    /\ lastResult = "ok"
    /\ \E i \in 1..Len(fs.todos) :
          /\ fs.todos[i].status = "done"
          /\ fs.todos[i].updated > fs.todos[i].created

----------------------------------------------------------------------------
(* C27: session records are immutable and there is one per goodbye: no step *)
(* removes or rewrites a session record, and every completed devctx_goodbye *)
(* adds one record to those that exist.                                     *)
C27_OneRecordPerGoodbye ==
    [][/\ fs.sessions \subseteq fs'.sessions
       /\ (lastResult' = "ok" /\ SessionGoodbye)
            => Cardinality(fs'.sessions) = Cardinality(fs.sessions) + 1]_vars

----------------------------------------------------------------------------
(* C24: no reader fails on malformed input.  Whatever the state, todo and   *)
(* ledger files hold, a reader does not throw; getProjectState returns a    *)
(* state object (the stored one, or the default), getTodos and              *)
(* getRecentActivity return a list of todos, of entries, or the empty list. *)
C24_ReadersTolerant ==
    rd.reader # "none"
      => /\ ~rd.threw
         /\ rd.reader = "getProjectState" => rd.value \in {"default", "object"}
         /\ rd.reader \in {"getTodos", "getRecentActivity"} => rd.value \in {"empty", "list"}

C30_NormalizeIdempotent ==
    /\ nz.op = "renormalize" => nz.out = nz.prev
    /\ nz.op \in {"normalize", "renormalize"}
         => \A i, j \in 1..Len(nz.out) :
               i < j => /\ nz.out[i] # nz.out[j]
                        /\ Rank[nz.out[i].root] <= Rank[nz.out[j].root]

----------------------------------------------------------------------------
(* C31: whatever the input text, no token of the output of normalize is a   *)
(* member of the stop-word set.                                             *)
C31_NoStopWordInOutput ==
    (nz.op = "normalize")
      => \A i \in 1..Len(nz.out) : nz.out[i] \notin StopWords

----------------------------------------------------------------------------
(* C32: scanSourceTodos stays within its bounds on every tree.  It collects *)
(* at most MAX_FILES files; every record comes from a directory at depth    *)
(* MAX_DEPTH at most, none of whose ancestors below the root, nor itself,   *)
(* has a skipped or dot name or is unreadable; no record has a line number  *)
(* above MAX_LINES_PER_FILE; no record comes from an unreadable file.       *)
C32_ScanBounded ==
    sc.done
      => /\ sc.total <= MAX_FILES
         /\ \A r \in sc.records :
               /\ r.dir <= MAX_DEPTH
               /\ r.line <= MAX_LINES_PER_FILE
               /\ sc.tree[r.dir + 1].fileReadable
               /\ \A d \in 1..r.dir : sc.tree[d + 1].kind = "plain"
               /\ \A d \in 0..r.dir : sc.tree[d + 1].readable

\* a scan that stopped at the file ceiling, on a tree deeper than MAX_DEPTH
\* whose files all carry a TODO on line 10000
C32_Witness ==
    /\ sc.done
    /\ sc.total = MAX_FILES
    /\ Len(sc.tree) > MAX_DEPTH + 1
    /\ sc.records # {}
    /\ \A r \in sc.records : r.line = MAX_LINES_PER_FILE

----------------------------------------------------------------------------
(* C33: the session_start entry of a process precedes every other entry     *)
(* that the process appends: a tool invocation that appends to the ledger   *)
(* while the session of the process has not started appends 'Session        *)
(* started' first.                                                          *)
C33_SessionStartFirst ==
    [][(/\ ~sessionStarted
        /\ Len(fs'.ledger) > Len(fs.ledger)
        /\ ToolStep)
          => fs'.ledger[Len(fs.ledger) + 1].msg = "Session started"]_vars

----------------------------------------------------------------------------
(* C34: one devctx_goodbye invocation that passes the guards appends        *)
(* exactly one session_end entry to the ledger, whether no write fails or   *)
(* one does (session file, state.json, CLAUDE.md) and the handler takes its *)
(* error path.                                                              *)
C34_OneSessionEnd ==
    [][\A outcome \in NarrativeOutcomes, suggested \in Suggestions,
          fail \in {"none", "record", "pause", "sync"} :
          (/\ lastResult' \in {"ok", "completed_with_errors"}
           /\ InvokeWithin(devctx_goodbye(fs, sessionStarted, pendingGreeting, now,
                                          outcome, suggested, fail), MaxSessionLedger))
             => Cardinality({i \in 1..Len(fs'.ledger) : fs'.ledger[i].type = "session_end"})
                  = Cardinality({i \in 1..Len(fs.ledger) : fs.ledger[i].type = "session_end"}) + 1]_vars

(* C37: the duration that devctx_goodbye reports is counted from the        *)
(* 'Session started' entry that the session-start bookkeeping of the        *)
(* process appended, whatever was done in between.                          *)
C37_DurationFromSessionStart ==
    [][(lastResult' = "ok" /\ SessionGoodbye)
          => \A r \in fs'.sessions \ fs.sessions :
                \E i \in 1..Len(fs.ledger) :
                   /\ fs.ledger[i].msg = "Session started"
                   /\ r.since = fs.ledger[i].ts]_vars

----------------------------------------------------------------------------
(* C35: the writes of a write tool happen while the project is active, in   *)
(* every interleaving of the invocations of one process: when a suspended   *)
(* devctx_goodbye goes on after its await and writes (session record,       *)
(* todos, ledger, state, CLAUDE.md), the project is active; so of two       *)
(* overlapping goodbyes only the first carries out the workflow.            *)
C35_WritesWhileActive ==
    [][(Len(waiting') < Len(waiting) /\ fs' # fs) => ~Paused(fs)]_vars

----------------------------------------------------------------------------
(* C36: pausing stops every writer: while the project stays paused no       *)
(* step, neither a tool of the assistant process nor a hook run from a      *)
(* terminal, appends an entry to the ledger.  The steps of a process whose  *)
(* session has not started are left out: there autoSessionStart resumes     *)
(* tracking before it appends.                                              *)
C36_PausedLedgerFrozen ==
    [][(Paused(fs) /\ Paused(fs') /\ sessionStarted) => fs'.ledger = fs.ledger]_vars

----------------------------------------------------------------------------
(* C38: a successful removeTodo(id) removes exactly one todo: afterwards    *)
(* the todo list is the list before with one todo of that id taken out,     *)
(* every other todo as it was and in its place.                             *)
C38_RemoveExactlyOne ==
    [][\A id \in TodoIds :
          (/\ removeTodoFound(fs, id)
           /\ StoreCall(removeTodo(fs, id), "ok"))
            => \E i \in 1..Len(fs.todos) :
                  /\ fs.todos[i].id = id
                  /\ fs'.todos = SubSeq(fs.todos, 1, i - 1)
                                   \o SubSeq(fs.todos, i + 1, Len(fs.todos))]_vars

----------------------------------------------------------------------------
(* C39: branch notes round-trip by branch name: after saveBranchNotes(b, c) *)
(* getBranchNotes(b) returns c, getBranchNotes of every other branch        *)
(* returns what it returned before, and listBranchNotes returns the names   *)
(* it returned before and b.                                                *)
C39_NotesRoundTrip ==
    [][\A b \in BranchNames, c \in {"one", "two"} :
          bn'.files = saveBranchNotesAs(bn.files, b, c)
            => /\ getBranchNotes(bn'.files, b) = c
               /\ \A b2 \in BranchNames \ {b} :
                     getBranchNotes(bn'.files, b2) = getBranchNotes(bn.files, b2)
               /\ listBranchNotes(bn'.files) = listBranchNotes(bn.files) \cup {b}]_vars

====
